---- MODULE Spec2Model ----
(***************************************************************************)
(* Model of the asset reference reconciliation scripts:                    *)
(*   scripts/audit-cloudinary-images.py   (CloudinaryAuditor)              *)
(*   scripts/extract-featured-images.py   (FeaturedImageExtractor)         *)
(*                                                                         *)
(* A Python str is a sequence of one-character strings; Python None is the *)
(* value None below, which is no sequence of single characters.            *)
(***************************************************************************)
EXTENDS Integers, Sequences, FiniteSets, TLC

VARIABLES
    \* ---- CloudinaryAuditor ----
    a_pc,               \* position inside CloudinaryAuditor.run
    next_cursor,        \* local of fetch_cloudinary_assets
    resources,          \* local of fetch_cloudinary_assets (list of public ids)
    cloudinary_images,  \* self.cloudinary_images
    referenced_images,  \* self.referenced_images, in insertion order
    a_stats,            \* self.stats
    a_out,              \* what the run has printed, as tags
    n_requests,         \* calls of cloudinary.api.resources so far
    sent,               \* next_cursor argument of the latest call
    prev_token,         \* next_cursor carried by the response before that call
    last_token,         \* next_cursor carried by the latest response
    fetch_failed,       \* a call of cloudinary.api.resources raised
    page_ids,           \* the public ids of every response received so far
    \* ---- FeaturedImageExtractor ----
    xml,                \* the export file at self.xml_path
    files,              \* the posts of self.posts_dir, in sorted order
    x_pc,               \* position inside FeaturedImageExtractor.run
    x_idx,              \* position of the loop of run in the sorted glob
    attachments,        \* self.attachments
    post_thumbnails,    \* self.post_thumbnails
    x_stats,            \* self.stats
    runs,               \* runs of the script started so far
    parse_failed,       \* ET.parse raised in this run
    n_reads,            \* posts opened for reading in this run
    files0,             \* the posts as this run found them
    updated,            \* stems of the posts some update_post has Updated
    last,               \* the latest update_post: its post, outcome and input
    \* ---- the derivation of the id ----
    d_url,              \* thumbnail_url
    d_id,               \* public_id
    d_pc

a_vars == <<a_pc, next_cursor, resources, cloudinary_images, referenced_images,
            a_stats, a_out, n_requests, sent, prev_token, last_token, fetch_failed,
            page_ids>>

x_vars == <<xml, files, x_pc, x_idx, attachments, post_thumbnails, x_stats,
            runs, parse_failed, n_reads, files0, updated, last>>

d_vars == <<d_url, d_id, d_pc>>

vars == <<a_vars, x_vars, d_vars>>

----
\* Bounds of the model.
MaxRequests == 3
MaxPosts == 2
MaxMatches == 2
MaxItems == 2
MaxRuns == 2

----
\* Python values.
None == <<"None">>
NoKey == <<"NoKey">>

\* bool(x) of a str or None
Truthy(x) == x # None /\ x # <<>>

RECURSIVE SeqToSet(_)
SeqToSet(s) == IF s = <<>> THEN {} ELSE {Head(s)} \cup SeqToSet(Tail(s))

SeqsUpTo(S, n) == UNION {[1..k -> S] : k \in 0..n}

\* Code points of the characters the model uses, for str comparison.
CharOrd(c) ==
    CASE c = " " -> 32 [] c = "\"" -> 34 [] c = "'" -> 39 [] c = "-" -> 45
      [] c = "." -> 46 [] c = "/" -> 47
      [] c = "0" -> 48 [] c = "1" -> 49 [] c = "2" -> 50 [] c = "3" -> 51
      [] c = "7" -> 55
      [] c = "G" -> 71 [] c = "J" -> 74 [] c = "P" -> 80
      [] c = "a" -> 97 [] c = "b" -> 98 [] c = "c" -> 99 [] c = "d" -> 100
      [] c = "e" -> 101 [] c = "f" -> 102 [] c = "g" -> 103 [] c = "i" -> 105
      [] c = "j" -> 106 [] c = "l" -> 108 [] c = "n" -> 110 [] c = "o" -> 111
      [] c = "p" -> 112 [] c = "s" -> 115 [] c = "t" -> 116 [] c = "u" -> 117
      [] c = "w" -> 119 [] c = "x" -> 120 [] c = "y" -> 121
      [] OTHER -> 0

\* s < t for two str
RECURSIVE StrLess(_, _)
StrLess(s, t) ==
    IF t = <<>> THEN FALSE
    ELSE IF s = <<>> THEN TRUE
    ELSE IF Head(s) = Head(t) THEN StrLess(Tail(s), Tail(t))
    ELSE CharOrd(Head(s)) < CharOrd(Head(t))

\* sorted(S) of a set of str
RECURSIVE Sorted(_)
Sorted(S) ==
    IF S = {} THEN <<>>
    ELSE LET m == CHOOSE x \in S : \A y \in S \ {x} : StrLess(x, y)
         IN <<m>> \o Sorted(S \ {m})

\* s.strip(chars)
RECURSIVE LStrip(_, _)
LStrip(s, chars) ==
    IF s # <<>> /\ Head(s) \in chars THEN LStrip(Tail(s), chars) ELSE s

RECURSIVE RStrip(_, _)
RStrip(s, chars) ==
    IF s # <<>> /\ s[Len(s)] \in chars
    THEN RStrip(SubSeq(s, 1, Len(s) - 1), chars) ELSE s

Strip(s, chars) == RStrip(LStrip(s, chars), chars)

----
\* ---- the remote host and the corpus, as the auditor sees them ----

\* public ids stored remotely
RemoteIds == {<<"a">>, <<"c">>}

\* values a response may carry under 'next_cursor'
CursorValues == {None, <<>>, <<"x">>, <<"y">>}

\* one response of cloudinary.api.resources
Responses ==
    [resources : SeqsUpTo(RemoteIds, 1),
     has_next_cursor : {TRUE},
     next_cursor : CursorValues]
    \cup
    [resources : SeqsUpTo(RemoteIds, 1),
     has_next_cursor : {FALSE},
     next_cursor : {NoKey}]

\* what group 1 of the reference pattern can capture in a post
RawIds == {<<"a">>, <<"b">>, <<"a", "'">>}

\* re.findall(pattern, content) of one post
MatchLists == SeqsUpTo(RawIds, MaxMatches)

----
\* ---- CloudinaryAuditor ----

AuditInit ==
    /\ a_pc = "fetch"
    /\ next_cursor = None
    /\ resources = <<>>
    /\ cloudinary_images = {}
    /\ referenced_images = <<>>
    /\ a_stats = [total_posts |-> 0, total_references |-> 0,
                  total_cloudinary_assets |-> 0,
                  missing_images |-> <<>>, unused_images |-> <<>>]
    /\ a_out = <<>>
    /\ n_requests = 0
    /\ sent = None
    /\ prev_token = NoKey
    /\ last_token = NoKey
    /\ fetch_failed = FALSE
    /\ page_ids = {}

\* the next_cursor argument of the call the loop makes next
CursorArgument(cursor) == IF Truthy(cursor) THEN cursor ELSE None

\* one successful iteration of the pagination loop; on the last one, the
\* statements after the loop (lines 65-68), where the locals resources and
\* next_cursor end with the call
FetchPage(result) ==
    /\ a_pc = "fetch"
    /\ n_requests < MaxRequests
    /\ n_requests' = n_requests + 1
    /\ sent' = CursorArgument(next_cursor)
    /\ prev_token' = last_token
    /\ last_token' = result.next_cursor
    /\ page_ids' = page_ids \cup SeqToSet(result.resources)
    /\ IF result.has_next_cursor
       THEN /\ next_cursor' = result.next_cursor
            /\ resources' = resources \o result.resources
            /\ UNCHANGED <<a_pc, cloudinary_images, a_stats, a_out>>
       ELSE /\ cloudinary_images' = SeqToSet(resources \o result.resources)
            /\ a_stats' = [a_stats EXCEPT !.total_cloudinary_assets =
                              Cardinality(cloudinary_images')]
            /\ a_out' = Append(a_out, "found_assets")
            /\ a_pc' = "extract"
            /\ resources' = <<>>
            /\ next_cursor' = None
    /\ UNCHANGED <<referenced_images, fetch_failed>>
    /\ UNCHANGED <<x_vars, d_vars>>

\* a call of cloudinary.api.resources raises: the except clause
FetchRaise ==
    /\ a_pc = "fetch"
    /\ n_requests < MaxRequests
    /\ n_requests' = n_requests + 1
    /\ sent' = CursorArgument(next_cursor)
    /\ prev_token' = last_token
    /\ last_token' = NoKey
    /\ fetch_failed' = TRUE
    /\ a_out' = Append(a_out, "fetch_error")
    /\ a_pc' = "extract"
    /\ resources' = <<>>
    /\ next_cursor' = None
    /\ UNCHANGED <<cloudinary_images, referenced_images, a_stats, page_ids>>
    /\ UNCHANGED <<x_vars, d_vars>>

\* the characters line 92 strips from a captured id
StripChars == {"\"", "'", " "}

\* self.referenced_images[public_id].append(name) on the defaultdict(list)
AddReference(index, public_id, name) ==
    IF \E i \in 1..Len(index) : index[i].public_id = public_id
    THEN [i \in 1..Len(index) |->
            IF index[i].public_id = public_id
            THEN [index[i] EXCEPT !.posts = Append(@, name)]
            ELSE index[i]]
    ELSE Append(index, [public_id |-> public_id, posts |-> <<name>>])

\* the loop over the matches of one post (lines 90-94)
RECURSIVE AddMatches(_, _, _)
AddMatches(index, matches, name) ==
    IF matches = <<>> THEN index
    ELSE AddMatches(AddReference(index, Strip(Head(matches), StripChars), name),
                    Tail(matches), name)

\* one iteration of the loop over the posts; the post file is named by its
\* number in the order of the glob
ScanPost(matches) ==
    /\ a_pc = "extract"
    /\ a_stats.total_posts < MaxPosts
    /\ LET name == a_stats.total_posts + 1
       IN /\ referenced_images' = AddMatches(referenced_images, matches, name)
          /\ a_stats' = [a_stats EXCEPT
                            !.total_posts = @ + 1,
                            !.total_references = @ + Len(matches)]
    /\ UNCHANGED <<a_pc, next_cursor, resources, cloudinary_images, a_out,
                   n_requests, sent, prev_token, last_token, fetch_failed, page_ids>>
    /\ UNCHANGED <<x_vars, d_vars>>

\* the glob is exhausted: the three prints after the loop
ScanDone ==
    /\ a_pc = "extract"
    /\ a_out' = Append(a_out, "scanned")
    /\ a_pc' = "missing"
    /\ UNCHANGED <<next_cursor, resources, cloudinary_images, referenced_images,
                   a_stats, n_requests, sent, prev_token, last_token, fetch_failed, page_ids>>
    /\ UNCHANGED <<x_vars, d_vars>>

\* keys of the reference index
Keys(index) == {index[i].public_id : i \in 1..Len(index)}

\* the loop of find_missing_images, in the index's iteration order
RECURSIVE MissingOf(_, _)
MissingOf(index, inventory) ==
    IF index = <<>> THEN <<>>
    ELSE (IF Head(index).public_id \notin inventory
          THEN <<Head(index)>> ELSE <<>>)
         \o MissingOf(Tail(index), inventory)

find_missing_images ==
    /\ a_pc = "missing"
    /\ a_stats' = [a_stats EXCEPT !.missing_images =
                      @ \o MissingOf(referenced_images, cloudinary_images)]
    /\ a_out' = Append(a_out, IF a_stats'.missing_images # <<>>
                              THEN "missing_report" ELSE "all_found")
    /\ a_pc' = "unused"
    /\ UNCHANGED <<next_cursor, resources, cloudinary_images, referenced_images,
                   n_requests, sent, prev_token, last_token, fetch_failed, page_ids>>
    /\ UNCHANGED <<x_vars, d_vars>>

\* find_unused_images without the subtraction
UnusedOf_Mut(index, inventory) == inventory

\* the set difference of find_unused_images
UnusedOf(index, inventory) == inventory \ Keys(index)

find_unused_images ==
    /\ a_pc = "unused"
    /\ LET unused == UnusedOf(referenced_images, cloudinary_images)
       IN IF unused # {}
          THEN /\ a_stats' = [a_stats EXCEPT !.unused_images = Sorted(unused)]
               /\ a_out' = Append(a_out, "unused_report")
          ELSE /\ a_stats' = a_stats
               /\ a_out' = Append(a_out, "all_referenced")
    /\ a_pc' = "summary"
    /\ UNCHANGED <<next_cursor, resources, cloudinary_images, referenced_images,
                   n_requests, sent, prev_token, last_token, fetch_failed, page_ids>>
    /\ UNCHANGED <<x_vars, d_vars>>

print_summary ==
    /\ a_pc = "summary"
    /\ a_out' = Append(a_out, IF a_stats.missing_images # <<>>
                              THEN "summary_action_required"
                              ELSE "summary_all_available")
    /\ a_pc' = "done"
    /\ UNCHANGED <<next_cursor, resources, cloudinary_images, referenced_images,
                   a_stats, n_requests, sent, prev_token, last_token, fetch_failed, page_ids>>
    /\ UNCHANGED <<x_vars, d_vars>>

AuditNext ==
    \/ \E result \in Responses : FetchPage(result)
    \/ FetchRaise
    \/ \E matches \in MatchLists : ScanPost(matches)
    \/ ScanDone
    \/ find_missing_images
    \/ find_unused_images
    \/ print_summary

----
\* ---- str helpers of the extractor ----

RECURSIVE Flatten(_)
Flatten(ss) == IF ss = <<>> THEN <<>> ELSE Head(ss) \o Flatten(Tail(ss))

\* sub in s
Contains(s, sub) ==
    \E i \in 1..(Len(s) - Len(sub) + 1) : SubSeq(s, i, i + Len(sub) - 1) = sub

\* s.split(sep, maxsplit) for a one-character sep
RECURSIVE SplitMax(_, _, _)
SplitMax(s, sep, maxsplit) ==
    IF maxsplit = 0 \/ ~\E i \in 1..Len(s) : s[i] = sep
    THEN <<s>>
    ELSE LET i == CHOOSE k \in 1..Len(s) :
                      s[k] = sep /\ \A m \in 1..(k - 1) : s[m] # sep
         IN <<SubSeq(s, 1, i - 1)>>
            \o SplitMax(SubSeq(s, i + 1, Len(s)), sep, maxsplit - 1)

\* s.split(sep)
Split(s, sep) == SplitMax(s, sep, Len(s))

\* c.lower(), on the letters of the model
Lower(c) ==
    CASE c = "J" -> "j" [] c = "P" -> "p" [] c = "G" -> "g" [] c = "E" -> "e"
      [] c = "N" -> "n" [] c = "I" -> "i" [] c = "F" -> "f" [] c = "W" -> "w"
      [] c = "B" -> "b" [] OTHER -> c

LowerStr(s) == [i \in 1..Len(s) |-> Lower(s[i])]

\* dict.get(k), dict[k] = v, for a dict held as a function
DictGet(d, k) == IF k \in DOMAIN d THEN d[k] ELSE None

DictPut(d, k, v) == [x \in (DOMAIN d) \cup {k} |-> IF x = k THEN v ELSE d[x]]

EmptyDict == [x \in {} |-> None]

----
\* ---- the export file ----

\* an element that find() does not find
Absent == <<"Absent">>

AttId1 == <<"4", "1">>
AttId2 == <<"4", "2">>
Url1 == <<"h", "/", "w", "p", "-", "c", "o", "n", "t", "e", "n", "t", "/", "u", "p", "l", "o", "a", "d", "s", "/", "2", "0", "2", "2", "/", "0", "3", "/", "h", ".", "p", "n", "g">>
Url2 == <<"h", "/", "i", "/", "l", ".", "j", "p", "g">>
Slug1 == <<"s">>
Title1 == <<"T">>
Title2 == <<"V">>

Meta(key, value) == [meta_key |-> key, meta_value |-> value]

Attachment(post_id, url) ==
    [post_type |-> "attachment", post_id |-> post_id, attachment_url |-> url,
     title |-> Absent, post_name |-> Absent, postmeta |-> <<>>]

Post(title, post_name, postmeta) ==
    [post_type |-> "post", post_id |-> Absent, attachment_url |-> Absent,
     title |-> title, post_name |-> post_name, postmeta |-> postmeta]

OtherItem(post_type) ==
    [post_type |-> post_type, post_id |-> Absent, attachment_url |-> Absent,
     title |-> Absent, post_name |-> Absent, postmeta |-> <<>>]

\* the wp:postmeta lists of the post records
Postmetas ==
    {<<>>,
     <<Meta("_thumbnail_id", AttId1)>>,
     <<Meta("_thumbnail_id", AttId2)>>,
     <<Meta("_thumbnail_id", None)>>,
     <<Meta("_thumbnail_id", Absent)>>,
     <<Meta("_edit_last", AttId1), Meta("_thumbnail_id", AttId2)>>}

\* the item records of an export
Items ==
    {Attachment(i, u) : i \in {Absent, AttId1, AttId2}, u \in {Absent, None, Url1}}
    \cup {Post(t, n, pm) : t \in {Absent, Title1, Title2},
                           n \in {Absent, Slug1}, pm \in Postmetas}
    \cup {OtherItem("page"), OtherItem("<absent>")}

Malformed == [ok |-> FALSE, items |-> <<>>]

WellFormed(items) == [ok |-> TRUE, items |-> items]

\* the export files of the parser's own specification
Exports == {WellFormed(items) : items \in SeqsUpTo(Items, MaxItems)} \cup {Malformed}

\* the export files the runs over a corpus are given
RunExports ==
    {Malformed,
     WellFormed(<<>>),
     WellFormed(<<Attachment(AttId1, Url1),
                  Post(Title1, Slug1, <<Meta("_thumbnail_id", AttId1)>>)>>),
     WellFormed(<<Attachment(AttId1, Url1), Attachment(AttId2, Url2),
                  Post(Title1, Slug1, <<Meta("_thumbnail_id", None)>>),
                  Post(Title2, Absent, <<Meta("_thumbnail_id", AttId2)>>)>>),
     WellFormed(<<Attachment(AttId2, Url2),
                  Post(Title1, Slug1, <<Meta("_thumbnail_id", AttId1)>>),
                  Post(Title2, Absent, <<Meta("_thumbnail_id", AttId2)>>)>>),
     WellFormed(<<Attachment(AttId1, Url1), Attachment(AttId2, Url2),
                  Post(Title1, Slug1, <<Meta("_thumbnail_id", AttId1)>>),
                  Post(Title2, Absent, <<Meta("_thumbnail_id", AttId2)>>)>>)}

----
\* ---- FeaturedImageExtractor.parse_xml ----

\* lines 64-70, for one wp:postmeta of a post record
BindMeta(thumbnails, item, meta) ==
    IF meta.meta_key = "_thumbnail_id"
       /\ meta.meta_value # Absent /\ item.title # Absent
    THEN LET by_name == IF item.post_name # Absent
                        THEN DictPut(thumbnails, item.post_name, meta.meta_value)
                        ELSE thumbnails
         IN DictPut(by_name, item.title, meta.meta_value)
    ELSE thumbnails

\* the loop over the wp:postmeta of a post record (line 62)
RECURSIVE BindMetas(_, _, _)
BindMetas(thumbnails, item, metas) ==
    IF metas = <<>> THEN thumbnails
    ELSE BindMetas(BindMeta(thumbnails, item, Head(metas)), item, Tail(metas))

\* the body of the loop over the items (lines 42-70)
ParseItem(tables, item) ==
    IF item.post_type = "<absent>" THEN tables
    ELSE IF item.post_type = "attachment"
    THEN IF item.post_id # Absent /\ item.attachment_url # Absent
         THEN [tables EXCEPT !.attachments =
                  DictPut(@, item.post_id, item.attachment_url)]
         ELSE tables
    ELSE IF item.post_type = "post"
    THEN [tables EXCEPT !.post_thumbnails = BindMetas(@, item, item.postmeta)]
    ELSE tables

\* the loop over the items (line 41)
RECURSIVE ParseItems(_, _)
ParseItems(tables, items) ==
    IF items = <<>> THEN tables
    ELSE ParseItems(ParseItem(tables, Head(items)), Tail(items))

\* ET.parse succeeds: the rest of parse_xml
parse_xml ==
    /\ x_pc = "parse"
    /\ xml.ok
    /\ LET tables == ParseItems([attachments |-> attachments,
                                 post_thumbnails |-> post_thumbnails], xml.items)
       IN /\ attachments' = tables.attachments
          /\ post_thumbnails' = tables.post_thumbnails
    /\ x_pc' = "loop"
    /\ UNCHANGED <<xml, files, x_idx, x_stats, runs, parse_failed, n_reads,
                   files0, updated, last>>
    /\ UNCHANGED <<a_vars, d_vars>>

\* ET.parse raises and the exception is swallowed: run goes on to the posts
parse_xml_raises_Mut ==
    /\ x_pc = "parse"
    /\ ~xml.ok
    /\ parse_failed' = TRUE
    /\ x_pc' = "loop"
    /\ UNCHANGED <<xml, files, x_idx, attachments, post_thumbnails, x_stats,
                   runs, n_reads, files0, updated, last>>
    /\ UNCHANGED <<a_vars, d_vars>>

\* ET.parse raises, and the exception leaves parse_xml and run
parse_xml_raises ==
    /\ x_pc = "parse"
    /\ ~xml.ok
    /\ parse_failed' = TRUE
    /\ x_pc' = "aborted"
    /\ UNCHANGED <<xml, files, x_idx, attachments, post_thumbnails, x_stats,
                   runs, n_reads, files0, updated, last>>
    /\ UNCHANGED <<a_vars, d_vars>>

----
\* ---- FeaturedImageExtractor.get_thumbnail_url ----

get_thumbnail_url(thumbnails, atts, post_slug, post_title) ==
    LET by_slug == DictGet(thumbnails, post_slug)
        thumbnail_id == IF ~Truthy(by_slug)
                        THEN DictGet(thumbnails, post_title)
                        ELSE by_slug
    IN IF Truthy(thumbnail_id) THEN DictGet(atts, thumbnail_id) ELSE None

----
\* ---- the derivation of the public id (update_post, lines 139-153) ----

Digits == {"0", "1", "2", "3", "4", "5", "6", "7", "8", "9"}

WpUploads == <<"/", "w", "p", "-", "c", "o", "n", "t", "e", "n", "t", "/", "u", "p", "l", "o", "a", "d", "s", "/">>

ImageExts == {<<"j", "p", "g">>, <<"j", "p", "e", "g">>, <<"p", "n", "g">>, <<"g", "i", "f">>, <<"w", "e", "b", "p">>}

\* thumbnail_url.split('/')[-1]
FinalSegment(url) == LET parts == Split(url, "/") IN parts[Len(parts)]

\* re.sub(r'\.(jpg|jpeg|png|gif|webp)$', '', filename, flags=re.IGNORECASE)
StripExtension(filename) ==
    LET Ends(e) == /\ Len(filename) >= Len(e) + 1
                   /\ LowerStr(SubSeq(filename, Len(filename) - Len(e),
                                      Len(filename))) = <<".">> \o e
    IN IF \E e \in ImageExts : Ends(e)
       THEN LET e == CHOOSE x \in ImageExts : Ends(x)
            IN SubSeq(filename, 1, Len(filename) - Len(e) - 1)
       ELSE filename

\* the pattern without its '/wp-content/uploads' prefix
UrlMatch_Mut(url) ==
    LET filename == FinalSegment(url)
        p == Len(url) - Len(filename)
    IN [matched |->
            /\ Len(filename) >= 1
            /\ p >= 9
            /\ url[p] = "/"
            /\ \A i \in (p - 2)..(p - 1) : url[i] \in Digits
            /\ url[p - 3] = "/"
            /\ \A i \in (p - 7)..(p - 4) : url[i] \in Digits
            /\ url[p - 8] = "/",
        month |-> IF p >= 3 THEN SubSeq(url, p - 2, p - 1) ELSE <<>>,
        filename |-> filename]

\* re.search(r'/wp-content/uploads/(\d{4})/(\d{2})/([^/]+)$', url): the
\* match ends at the end of url, so group 3 is the final segment, group 2 the
\* two characters before the '/' in front of it, group 1 the four before
\* that, and the literal ends right in front of group 1
UrlMatch(url) ==
    LET filename == FinalSegment(url)
        p == Len(url) - Len(filename)
        L == Len(WpUploads)
    IN [matched |->
            /\ Len(filename) >= 1
            /\ p >= L + 8
            /\ url[p] = "/"
            /\ \A i \in (p - 2)..(p - 1) : url[i] \in Digits
            /\ url[p - 3] = "/"
            /\ \A i \in (p - 7)..(p - 4) : url[i] \in Digits
            /\ SubSeq(url, p - 7 - L, p - 8) = WpUploads,
        month |-> IF p >= 3 THEN SubSeq(url, p - 2, p - 1) ELSE <<>>,
        filename |-> filename]

DeriveId(url) ==
    LET url_match == UrlMatch(url)
    IN IF url_match.matched
       THEN url_match.month \o <<"/">> \o StripExtension(url_match.filename)
       ELSE StripExtension(FinalSegment(url))

----
\* ---- the posts ----

\* A post is its text as f.read() returns it: the lines, and whether the
\* last line ends with a newline.  A line is the fence '---', a 'key: value'
\* line of the metadata block in plain or quoted style, or other text.
Fence == [t |-> "fence", key |-> "", val |-> <<>>, style |-> ""]

KV(key, val, style) == [t |-> "kv", key |-> key, val |-> val, style |-> style]

Text(val) == [t |-> "text", key |-> "", val |-> val, style |-> ""]

Doc(lines, nl) == [lines |-> lines, nl |-> IF lines = <<>> THEN FALSE ELSE nl]

EmptyDoc == Doc(<<>>, FALSE)

\* a + b of two texts, a empty or ending with a newline
DocConcat(a, b) ==
    IF b.lines = <<>> THEN a ELSE Doc(a.lines \o b.lines, b.nl)

\* the metadata blocks of the posts of the corpus
MetaBlocks ==
    {<<>>,
     <<KV("title", Title1, "plain")>>,
     <<KV("title", Title2, "quoted"), KV("layout", <<"p">>, "plain")>>,
     <<KV("layout", <<"p">>, "quoted"), KV("title", Title2, "plain")>>,
     <<KV("title", Title1, "plain"), KV("title", Title2, "plain")>>,
     <<KV("title", Title1, "plain"), KV("image", <<"x">>, "plain")>>,
     <<KV("featured_image", <<"y">>, "quoted"), KV("title", Title1, "plain")>>,
     <<KV("layout", <<"p">>, "plain")>>,
     <<Text(<<"h", "i">>)>>,
     <<Text(<<"i", "m", "a", "g", "e">>)>>,
     <<KV("title", Title1, "plain"), Text(<<"h", "i">>)>>}

\* the bodies of the posts of the corpus
Bodies ==
    {EmptyDoc,
     Doc(<<Text(<<"h", "i">>)>>, TRUE),
     Doc(<<Text(<<"h", "i">>), Fence, Text(<<"h", "i">>)>>, FALSE)}

\* the texts of the posts of the corpus
DocContents ==
    {DocConcat(Doc(<<Fence>> \o block \o <<Fence>>, TRUE), body) :
        block \in MetaBlocks, body \in Bodies}
    \cup {EmptyDoc,
          Doc(<<Text(<<"h", "i">>)>>, TRUE),
          Doc(<<Fence, KV("title", Title1, "plain")>>, TRUE),
          Doc(<<Fence, KV("title", Title1, "plain"), Fence>>, FALSE)}

\* the stems of the post files
Stems == {<<"1", "-", "2", "-", "3", "-", "s">>, <<"n">>}

\* sorted(self.posts_dir.glob('*.md')) of a directory holding these posts
RECURSIVE SortedFiles(_)
SortedFiles(fs) ==
    IF fs = {} THEN <<>>
    ELSE LET m == CHOOSE f \in fs : \A g \in fs \ {f} : StrLess(f.stem, g.stem)
         IN <<m>> \o SortedFiles(fs \ {m})

\* the directories of posts: at most one file of each stem
Corpora ==
    {SortedFiles({[stem |-> st, content |-> c[st]] : st \in chosen}) :
        chosen \in SUBSET Stems, c \in [Stems -> DocContents]}

----
\* ---- FeaturedImageExtractor.extract_front_matter ----

NoFrontMatter == [kind |-> "none", items |-> <<>>, text |-> <<>>]

\* d[key] = val on a dict held in insertion order
SetItem(items, key, val) ==
    IF \E i \in 1..Len(items) : items[i].key = key
    THEN [i \in 1..Len(items) |->
            IF items[i].key = key THEN [key |-> key, val |-> val] ELSE items[i]]
    ELSE Append(items, [key |-> key, val |-> val])

RECURSIVE DictOfLines(_, _)
DictOfLines(items, lines) ==
    IF lines = <<>> THEN items
    ELSE DictOfLines(SetItem(items, Head(lines).key, Head(lines).val), Tail(lines))

RECURSIVE JoinLines(_)
JoinLines(lines) ==
    IF lines = <<>> THEN <<>>
    ELSE IF Len(lines) = 1 THEN Head(lines).val
    ELSE Head(lines).val \o <<" ">> \o JoinLines(Tail(lines))

\* yaml.safe_load of the block between the fences: nothing gives None,
\* key/value lines a dict, plain text a str, a mix of both an exception
SafeLoad(lines) ==
    IF lines = <<>>
    THEN [raised |-> FALSE, value |-> NoFrontMatter]
    ELSE IF \A i \in 1..Len(lines) : lines[i].t = "kv"
    THEN [raised |-> FALSE,
          value |-> [kind |-> "dict", items |-> DictOfLines(<<>>, lines),
                     text |-> <<>>]]
    ELSE IF \A i \in 1..Len(lines) : lines[i].t = "text"
    THEN [raised |-> FALSE,
          value |-> [kind |-> "str", items |-> <<>>, text |-> JoinLines(lines)]]
    ELSE [raised |-> TRUE, value |-> NoFrontMatter]

\* the lines that re.search(r'\n---\n', content[3:]) can match at: a fence
\* after the first line, itself ended by a newline
ClosingFences(content) ==
    {i \in 2..Len(content.lines) :
        /\ content.lines[i] = Fence
        /\ (i < Len(content.lines) \/ content.nl)}

extract_front_matter(content) ==
    IF content.lines = <<>> \/ content.lines[1] # Fence
    THEN [front_matter |-> NoFrontMatter, body |-> content]
    ELSE IF ClosingFences(content) = {}
    THEN [front_matter |-> NoFrontMatter, body |-> content]
    ELSE LET end == CHOOSE i \in ClosingFences(content) :
                        \A j \in ClosingFences(content) : i <= j
             loaded == SafeLoad(SubSeq(content.lines, 2, end - 1))
         IN IF loaded.raised
            THEN [front_matter |-> NoFrontMatter, body |-> content]
            ELSE [front_matter |-> loaded.value,
                  body |-> Doc(SubSeq(content.lines, end + 1, Len(content.lines)),
                               content.nl)]

----
\* ---- FeaturedImageExtractor.update_post ----

\* key in front_matter: a key of a dict, a substring of a str
HasKey(front_matter, key, key_str) ==
    IF front_matter.kind = "dict"
    THEN \E i \in 1..Len(front_matter.items) : front_matter.items[i].key = key
    ELSE Contains(front_matter.text, key_str)

\* the test of line 124 with the 'image' half left out
AlreadyHasImage_Mut(front_matter) ==
    HasKey(front_matter, "featured_image", <<"f", "e", "a", "t", "u", "r", "e", "d", "_", "i", "m", "a", "g", "e">>)

\* line 124
AlreadyHasImage(front_matter) ==
    \/ HasKey(front_matter, "featured_image", <<"f", "e", "a", "t", "u", "r", "e", "d", "_", "i", "m", "a", "g", "e">>)
    \/ HasKey(front_matter, "image", <<"i", "m", "a", "g", "e">>)

\* front_matter.get('title', '')
TitleOf(front_matter) ==
    IF \E i \in 1..Len(front_matter.items) : front_matter.items[i].key = "title"
    THEN LET i == CHOOSE k \in 1..Len(front_matter.items) :
                      front_matter.items[k].key = "title"
         IN front_matter.items[i].val
    ELSE <<>>

\* line 129
PostSlug(stem) ==
    IF \E i \in 1..Len(stem) : stem[i] = "-"
    THEN LET parts == SplitMax(stem, "-", 3) IN parts[Len(parts)]
    ELSE stem

\* the style yaml.dump gives a str value
DumpStyle(val) == IF val = <<>> THEN "quoted" ELSE "plain"

\* yaml.dump(front_matter, default_flow_style=False, sort_keys=False)
YamlDump(items) ==
    [i \in 1..Len(items) |-> KV(items[i].key, items[i].val, DumpStyle(items[i].val))]

\* lines 159-161, without line 162
Rebuild_Mut(items, body) == Doc(<<Fence>> \o YamlDump(items) \o <<Fence>>, TRUE)

\* lines 159-162
Rebuild(items, body) ==
    DocConcat(Doc(<<Fence>> \o YamlDump(items) \o <<Fence>>, TRUE), body)

\* update_post on one post: what it returns or that it raises, the text it
\* leaves in the file, and the id it resolved
UpdatePostOf(file, thumbnails, atts) ==
    LET extracted == extract_front_matter(file.content)
        front_matter == extracted.front_matter
        thumbnail_url == get_thumbnail_url(thumbnails, atts, PostSlug(file.stem),
                                           TitleOf(front_matter))
        public_id == DeriveId(thumbnail_url)
        skipped == [outcome |-> "Skipped", content |-> file.content,
                    public_id |-> None, wrote |-> FALSE]
    IN IF front_matter.kind = "none" THEN skipped
       ELSE IF AlreadyHasImage(front_matter) THEN skipped
       ELSE IF front_matter.kind = "str"
       THEN [outcome |-> "Raised", content |-> file.content,
             public_id |-> None, wrote |-> FALSE]
       ELSE IF ~Truthy(thumbnail_url) THEN skipped
       ELSE [outcome |-> "Updated",
             content |-> Rebuild(SetItem(front_matter.items, "featured_image",
                                         public_id), extracted.body),
             public_id |-> public_id, wrote |-> TRUE]

\* one iteration of the loop of run without the try/except of lines 178-183:
\* what update_post raises leaves run, and nothing is recorded
update_post_Mut ==
    /\ x_pc = "loop"
    /\ x_idx <= Len(files)
    /\ LET file == files[x_idx]
           r == UpdatePostOf(file, post_thumbnails, attachments)
       IN /\ files' = [files EXCEPT ![x_idx].content = r.content]
          /\ x_stats' = [x_stats EXCEPT
                !.posts_found = @ + 1,
                !.posts_skipped = IF r.outcome = "Skipped" THEN @ + 1 ELSE @,
                !.posts_updated = IF r.outcome = "Updated" THEN @ + 1 ELSE @]
          /\ updated' = IF r.outcome = "Updated"
                        THEN updated \cup {file.stem} ELSE updated
          /\ last' = [idx |-> x_idx, outcome |-> r.outcome,
                      before |-> file.content, public_id |-> r.public_id,
                      wrote |-> r.wrote, was_updated |-> file.stem \in updated]
          /\ x_pc' = IF r.outcome = "Raised" THEN "aborted" ELSE x_pc
    /\ n_reads' = n_reads + 1
    /\ x_idx' = x_idx + 1
    /\ UNCHANGED <<xml, attachments, post_thumbnails, runs, parse_failed,
                   files0>>
    /\ UNCHANGED <<a_vars, d_vars>>

\* one iteration of the loop of run: update_post and the except clause
update_post ==
    /\ x_pc = "loop"
    /\ x_idx <= Len(files)
    /\ LET file == files[x_idx]
           r == UpdatePostOf(file, post_thumbnails, attachments)
       IN /\ files' = [files EXCEPT ![x_idx].content = r.content]
          /\ x_stats' = [x_stats EXCEPT
                !.posts_found = @ + 1,
                !.posts_skipped = IF r.outcome = "Skipped" THEN @ + 1 ELSE @,
                !.posts_updated = IF r.outcome = "Updated" THEN @ + 1 ELSE @,
                !.errors = IF r.outcome = "Raised" THEN Append(@, file.stem) ELSE @]
          /\ updated' = IF r.outcome = "Updated"
                        THEN updated \cup {file.stem} ELSE updated
          /\ last' = [idx |-> x_idx, outcome |-> r.outcome,
                      before |-> file.content, public_id |-> r.public_id,
                      wrote |-> r.wrote, was_updated |-> file.stem \in updated]
    /\ n_reads' = n_reads + 1
    /\ x_idx' = x_idx + 1
    /\ UNCHANGED <<xml, x_pc, attachments, post_thumbnails, runs, parse_failed,
                   files0>>
    /\ UNCHANGED <<a_vars, d_vars>>

\* the glob is exhausted: the summary
run_summary ==
    /\ x_pc = "loop"
    /\ x_idx > Len(files)
    /\ x_pc' = "done"
    /\ UNCHANGED <<xml, files, x_idx, attachments, post_thumbnails, x_stats,
                   runs, parse_failed, n_reads, files0, updated, last>>
    /\ UNCHANGED <<a_vars, d_vars>>

NoLast == [idx |-> 0, outcome |-> "none", before |-> EmptyDoc,
           public_id |-> None, wrote |-> FALSE, was_updated |-> FALSE]

NewStats == [posts_found |-> 0, posts_updated |-> 0, posts_skipped |-> 0,
             errors |-> <<>>]

\* the script is started again on the same export and directory: __init__
rerun ==
    /\ x_pc \in {"done", "aborted"}
    /\ runs < MaxRuns
    /\ runs' = runs + 1
    /\ x_pc' = "parse"
    /\ x_idx' = 1
    /\ attachments' = EmptyDict
    /\ post_thumbnails' = EmptyDict
    /\ x_stats' = NewStats
    /\ parse_failed' = FALSE
    /\ n_reads' = 0
    /\ files0' = files
    /\ last' = NoLast
    /\ UNCHANGED <<xml, files, updated>>
    /\ UNCHANGED <<a_vars, d_vars>>

\* the extractor as __init__ leaves it, given an export and a directory
ExtractInit(exports, corpora) ==
    /\ xml \in exports
    /\ files \in corpora
    /\ x_pc = "parse"
    /\ x_idx = 1
    /\ attachments = EmptyDict
    /\ post_thumbnails = EmptyDict
    /\ x_stats = NewStats
    /\ runs = 1
    /\ parse_failed = FALSE
    /\ n_reads = 0
    /\ files0 = files
    /\ updated = {}
    /\ last = NoLast

ExtractNext ==
    \/ parse_xml
    \/ parse_xml_raises
    \/ update_post
    \/ run_summary
    \/ rerun

ParseNext ==
    \/ parse_xml
    \/ parse_xml_raises

----
\* ---- the derivation of the id, on its own ----

MaxExts == 2

ExtPieces == {<<".", "j", "p", "g">>, <<".", "j", "p", "e", "g">>, <<".", "p", "n", "g">>, <<".", "g", "i", "f">>, <<".", "w", "e", "b", "p">>, <<".", "J", "P", "G">>, <<".", "t", "x", "t">>}

\* file names: a stem and up to MaxExts stacked extensions
FileNames ==
    {stem \o Flatten(exts) : stem \in {<<"c">>, <<>>},
                             exts \in SeqsUpTo(ExtPieces, MaxExts)}

\* attachment urls: a directory, then maybe a year, maybe a month, a file
Urls ==
    {host \o dir \o year \o month \o <<"/">> \o name :
        dir \in {<<"/", "w", "p", "-", "c", "o", "n", "t", "e", "n", "t", "/", "u", "p", "l", "o", "a", "d", "s">>, <<"w", "p", "-", "c", "o", "n", "t", "e", "n", "t", "/", "u", "p", "l", "o", "a", "d", "s">>, <<"/", "f", "i", "l", "e", "s">>, <<>>},
        year \in {<<"/", "2", "0", "2", "1">>, <<"/", "2", "0", "2">>, <<>>},
        month \in {<<"/", "0", "7">>, <<"/", "7">>, <<>>},
        name \in FileNames, host \in {<<"h">>, <<>>}}

DeriveInit ==
    /\ d_url \in Urls
    /\ d_id = None
    /\ d_pc = "start"

\* lines 142-153 on thumbnail_url = d_url
derive ==
    /\ d_pc = "start"
    /\ d_id' = DeriveId(d_url)
    /\ d_pc' = "done"
    /\ UNCHANGED <<d_url, a_vars, x_vars>>

----
\* ---- the specifications ----

AuditIdle ==
    /\ a_pc = "idle"
    /\ next_cursor = None
    /\ resources = <<>>
    /\ cloudinary_images = {}
    /\ referenced_images = <<>>
    /\ a_stats = [total_posts |-> 0, total_references |-> 0,
                  total_cloudinary_assets |-> 0,
                  missing_images |-> <<>>, unused_images |-> <<>>]
    /\ a_out = <<>>
    /\ n_requests = 0
    /\ sent = None
    /\ prev_token = NoKey
    /\ last_token = NoKey
    /\ fetch_failed = FALSE
    /\ page_ids = {}

ExtractIdle ==
    /\ xml = WellFormed(<<>>)
    /\ files = <<>>
    /\ x_pc = "idle"
    /\ x_idx = 1
    /\ attachments = EmptyDict
    /\ post_thumbnails = EmptyDict
    /\ x_stats = NewStats
    /\ runs = 0
    /\ parse_failed = FALSE
    /\ n_reads = 0
    /\ files0 = <<>>
    /\ updated = {}
    /\ last = NoLast

DeriveIdle ==
    /\ d_url = <<>>
    /\ d_id = None
    /\ d_pc = "idle"

\* a run of audit-cloudinary-images.py
InitAudit == AuditInit /\ ExtractIdle /\ DeriveIdle

SpecAudit == InitAudit /\ [][AuditNext]_vars

\* runs of extract-featured-images.py over a directory of posts
InitExtract == AuditIdle /\ ExtractInit(RunExports, Corpora) /\ DeriveIdle

SpecExtract == InitExtract /\ [][ExtractNext]_vars

\* parse_xml on the exports of up to MaxItems items
InitParse == AuditIdle /\ ExtractInit(Exports, {<<>>}) /\ DeriveIdle

SpecParse == InitParse /\ [][ParseNext]_vars

\* the derivation of the id on the urls of Urls
InitDerive == AuditIdle /\ ExtractIdle /\ DeriveInit

DeriveNext == derive

SpecDerive == InitDerive /\ [][DeriveNext]_vars

----
\* ---- properties of the audit ----

SummaryPrinted ==
    \E i \in 1..Len(a_out) :
        a_out[i] \in {"summary_action_required", "summary_all_available"}

\* C1: when a page request of fetch_cloudinary_assets raises, the run reports
\* no referenced id as missing and prints no summary.
C1_FailedFetchIsUnavailable ==
    fetch_failed => (a_stats.missing_images = <<>> /\ ~SummaryPrinted)

\* C2: the pagination loop stops exactly after the first response without a
\* continuation token, every response that carries a token is followed by a
\* request passing that same token, and the loop ends with the inventory
\* equal to the union of the ids of all pages.
C2_PaginationFollowsTokens ==
    /\ (n_requests >= 2 /\ prev_token # NoKey) => sent = prev_token
    /\ (a_pc = "fetch" /\ n_requests >= 1) => last_token # NoKey
    /\ (a_pc # "fetch" /\ ~fetch_failed) =>
          (last_token = NoKey /\ cloudinary_images = page_ids)

MissingIds == {a_stats.missing_images[i].public_id :
                  i \in 1..Len(a_stats.missing_images)}

UnusedIds == SeqToSet(a_stats.unused_images)

\* C3: after find_missing_images and find_unused_images, no missing id is in
\* the inventory, no unused id is a key of the reference index, the missing
\* ids with the keys found in the inventory are exactly the keys, unused is
\* exactly the inventory minus the keys, whatever order the index was built
\* in, and each id is reported once.
C3_Reconciliation ==
    a_pc \in {"summary", "done"} =>
        LET R == Keys(referenced_images)
            I == cloudinary_images
        IN /\ MissingIds \cap I = {}
           /\ UnusedIds \cap R = {}
           /\ MissingIds \cup (R \cap I) = R
           /\ UnusedIds = I \ R
           /\ Len(a_stats.missing_images) = Cardinality(MissingIds)
           /\ Len(a_stats.unused_images) = Cardinality(UnusedIds)

C3_Witness ==
    /\ a_pc = "done"
    /\ MissingIds # {}
    /\ UnusedIds # {}
    /\ Keys(referenced_images) \cap cloudinary_images # {}
    /\ Len(referenced_images) >= 2

\* C11: in the reference index each post appears at most once in the list
\* of posts of any id, however many of its matches give that id, while
\* total_references counts every match.
C11_OneMentionPerDocument ==
    /\ \A i \in 1..Len(referenced_images) :
          \A j, k \in 1..Len(referenced_images[i].posts) :
              j # k => referenced_images[i].posts[j] # referenced_images[i].posts[k]
    /\ a_stats.total_references >= Len(referenced_images)

----
\* ---- properties of the extraction ----

\* the lines of the metadata block of a text: those between an opening fence
\* and the first later fence that a newline ends
BlockLines(content) ==
    IF content.lines # <<>> /\ content.lines[1] = Fence
       /\ \E e \in 2..Len(content.lines) :
             content.lines[e] = Fence /\ (e < Len(content.lines) \/ content.nl)
    THEN LET e == CHOOSE k \in 2..Len(content.lines) :
                     /\ content.lines[k] = Fence
                     /\ (k < Len(content.lines) \/ content.nl)
                     /\ \A j \in 2..(k - 1) : content.lines[j] # Fence
         IN SubSeq(content.lines, 2, e - 1)
    ELSE <<>>

BlockHasImageKey(content) ==
    \E i \in 1..Len(BlockLines(content)) :
        /\ BlockLines(content)[i].t = "kv"
        /\ BlockLines(content)[i].key \in {"featured_image", "image"}

LastUnwritten ==
    /\ last.outcome = "Skipped"
    /\ ~last.wrote
    /\ files[last.idx].content = last.before

\* C4: a post whose metadata block already holds 'featured_image' or 'image'
\* is skipped and its file stays as it was, and once a post has been Updated
\* every later update_post on it, in the same or a later run, is Skipped and
\* leaves the file as it was.
C4_UpdateIdempotent ==
    last.outcome # "none" =>
        /\ BlockHasImageKey(last.before) => LastUnwritten
        /\ last.was_updated => LastUnwritten

C4_Witness ==
    /\ last.was_updated
    /\ last.outcome = "Skipped"
    /\ runs = 2
    /\ BlockHasImageKey(last.before)

\* C5: when update_post returns Updated the rewritten post has the body it
\* had, every metadata key it had with the same value in the same order, and
\* one more key, 'featured_image', holding the resolved id; when it returns
\* Skipped the file is not written.
C5_UpdateFrame ==
    /\ last.outcome = "Updated" =>
          LET before == extract_front_matter(last.before)
              after == extract_front_matter(files[last.idx].content)
          IN /\ after.body = before.body
             /\ last.public_id # None
             /\ after.front_matter.kind = "dict"
             /\ after.front_matter.items =
                   Append(before.front_matter.items,
                          [key |-> "featured_image", val |-> last.public_id])
    /\ last.outcome = "Skipped" => LastUnwritten

C5_Witness ==
    /\ last.outcome = "Updated"
    /\ Len(extract_front_matter(last.before).front_matter.items) >= 2
    /\ Len(extract_front_matter(last.before).body.lines) >= 2
    /\ \E i \in 1..Len(BlockLines(last.before)) :
          BlockLines(last.before)[i].style = "quoted"

\* the slugs and titles a post can be looked up by
LookupSlugs == {PostSlug(st) : st \in Stems}

LookupTitles == {Title1, Title2, <<>>}

\* C6: whenever the slug is a key of the thumbnail bindings, get_thumbnail_url
\* is decided by the slug's binding alone: it returns the attachment the slug
\* is bound to, and nothing when that attachment is not in the table.
C6_SlugBindingDecides ==
    x_pc \in {"loop", "done"} =>
        \A slug \in LookupSlugs, title \in LookupTitles :
            slug \in DOMAIN post_thumbnails =>
                get_thumbnail_url(post_thumbnails, attachments, slug, title)
                  = IF post_thumbnails[slug] \in DOMAIN attachments
                    THEN attachments[post_thumbnails[slug]]
                    ELSE None

\* a post record with a _thumbnail_id entry that has a value
HasMarker(item) ==
    /\ item.post_type = "post"
    /\ \E i \in 1..Len(item.postmeta) :
          /\ item.postmeta[i].meta_key = "_thumbnail_id"
          /\ item.postmeta[i].meta_value # Absent

\* C7: for every post record with the _thumbnail_id marker, parse_xml binds
\* the slug whenever the slug field is present and the title whenever the
\* title field is present, each whether or not the other is present; a post
\* without the marker adds no binding.
C7_BindsSlugAndTitleIndependently ==
    x_pc = "loop" =>
        /\ \A i \in 1..Len(xml.items) :
              HasMarker(xml.items[i]) =>
                  /\ xml.items[i].post_name # Absent =>
                        xml.items[i].post_name \in DOMAIN post_thumbnails
                  /\ xml.items[i].title # Absent =>
                        xml.items[i].title \in DOMAIN post_thumbnails
        /\ \A k \in DOMAIN post_thumbnails :
              \E i \in 1..Len(xml.items) :
                  /\ HasMarker(xml.items[i])
                  /\ k \in {xml.items[i].post_name, xml.items[i].title}

\* C8: when the export cannot be parsed, neither table receives an entry, the
\* failure leaves run, and no post is read or written.
C8_ParseFailureAborts ==
    (x_pc # "parse" /\ ~xml.ok) =>
        /\ parse_failed
        /\ x_pc = "aborted"
        /\ attachments = EmptyDict
        /\ post_thumbnails = EmptyDict
        /\ n_reads = 0
        /\ x_stats = NewStats
        /\ files = files0
        /\ last = NoLast

C8_Witness ==
    /\ ~xml.ok
    /\ x_pc = "aborted"
    /\ Len(files) = 2
    /\ \E i \in 1..Len(files) :
          /\ ~BlockHasImageKey(files[i].content)
          /\ BlockLines(files[i].content) # <<>>

\* C12: a post whose processing raises never halts the run, and the
\* statistics account for every post exactly once: after each post
\* posts_found is the number of posts visited and equals posts_updated +
\* posts_skipped + the number of recorded errors, and at the summary
\* posts_found is the number of posts of the directory.
C12_StatsAccountForEveryPost ==
    /\ x_pc = "aborted" => parse_failed
    /\ x_pc \in {"loop", "done"} =>
          /\ x_stats.posts_found = x_idx - 1
          /\ x_stats.posts_found = x_stats.posts_updated + x_stats.posts_skipped
                                      + Len(x_stats.errors)
    /\ x_pc = "done" => x_stats.posts_found = Len(files)

\* the summary of a run over two posts, the first of which raised and the
\* second of which was updated
C12_Witness ==
    /\ x_pc = "done"
    /\ Len(files) = 2
    /\ Len(x_stats.errors) = 1
    /\ x_stats.posts_updated = 1
    /\ last.idx = 2
    /\ last.outcome = "Updated"

----
\* ---- properties of the derivation of the id ----

RECURSIVE JoinWith(_, _)
JoinWith(parts, sep) ==
    IF Len(parts) = 1 THEN parts[1]
    ELSE parts[1] \o <<sep>> \o JoinWith(Tail(parts), sep)

\* the last dot-separated part of a name is a recognized image extension
EndsInImageExt(name) ==
    LET parts == Split(name, ".")
    IN Len(parts) >= 2 /\ LowerStr(parts[Len(parts)]) \in ImageExts

\* a name without its last dot-separated part, when that is such an extension
WithoutLastExt(name) ==
    LET parts == Split(name, ".")
    IN IF EndsInImageExt(name)
       THEN JoinWith(SubSeq(parts, 1, Len(parts) - 1), ".")
       ELSE name

AllDigits(seg, n) == Len(seg) = n /\ \A i \in 1..n : seg[i] \in Digits

Segments(url) == Split(url, "/")

\* the last three path segments are a 4-digit year, a 2-digit month and a
\* file name
YearMonthFile(url) ==
    LET segs == Segments(url)
        n == Len(segs)
    IN /\ n >= 3
       /\ AllDigits(segs[n - 2], 4)
       /\ AllDigits(segs[n - 1], 2)
       /\ segs[n] # <<>>

\* ... and they follow '/wp-content/uploads/'
WpYearMonthFile(url) ==
    LET segs == Segments(url)
        n == Len(segs)
    IN /\ YearMonthFile(url)
       /\ n >= 6
       /\ segs[n - 4] = <<"w", "p", "-", "c", "o", "n", "t", "e", "n", "t">>
       /\ segs[n - 3] = <<"u", "p", "l", "o", "a", "d", "s">>

ExpectedId(url, bucketed) ==
    LET segs == Segments(url)
        n == Len(segs)
    IN IF bucketed
       THEN segs[n - 1] \o <<"/">> \o WithoutLastExt(segs[n])
       ELSE WithoutLastExt(segs[n])

\* C9 as the specification words it: a url whose last three segments are year, month and file
\* name, whatever precedes them, gives '<month>/<file name without its
\* extension>', and every other url the bare final segment without its
\* extension.
C9_AnyYearMonthPath ==
    d_pc = "done" => d_id = ExpectedId(d_url, YearMonthFile(d_url))

\* C9: a url that ends with '/wp-content/uploads/<year>/<month>/<file name>'
\* gives '<month>/<file name without its trailing image extension>', and
\* every other url the bare final segment without its trailing image
\* extension.
C9_WpUploadsPath ==
    d_pc = "done" => d_id = ExpectedId(d_url, WpYearMonthFile(d_url))

C9_Witness ==
    /\ d_pc = "done"
    /\ WpYearMonthFile(d_url)
    /\ EndsInImageExt(FinalSegment(d_url))
    /\ d_id = <<"0", "7", "/", "c">>

\* C10: the derived id never ends in a recognized image extension, in any
\* letter case, so stripping the extension from it again changes nothing.
C10_NoExtensionSurvives ==
    d_pc = "done" => (~EndsInImageExt(d_id) /\ StripExtension(d_id) = d_id)

====
